---------------------------- MODULE Spec2Model ----------------------------
(***************************************************************************)
(* Polyurethane injection calculator (src/polyurethane_calculator.py).     *)
(*                                                                         *)
(* The calculator works on binary floating point numbers.  The model       *)
(* keeps that arithmetic, at a reduced width: a number is a record         *)
(*   [k |-> "fin", s |-> sign, m |-> mantissa, e |-> exponent]             *)
(* of value s * m * 2^e with m = 0 or 2^(PrecBits-1) <= m < 2^PrecBits,    *)
(* or an infinity [k |-> "inf"], or not-a-number [k |-> "nan"].  Every     *)
(* operation rounds to nearest, ties to even, overflows to infinity above  *)
(* 2^MaxExp and underflows to zero below 2^-MinExpAbs, as an IEEE-754      *)
(* double does at 53 bits and exponents 971 and -1074.                     *)
(***************************************************************************)
EXTENDS Integers, Sequences, FiniteSets, TLC

\* Width of the mantissa, and the exponent range, of the model's floats.
PrecBits == 20
MaxExp == 100
MinExpAbs == 140

----------------------------------------------------------------------------
(* Floating point arithmetic (Python float, numpy.float64)                 *)

RECURSIVE BitLen(_)
BitLen(n) == IF n = 0 THEN 0 ELSE 1 + BitLen(n \div 2)

Zero == [k |-> "fin", s |-> 1, m |-> 0, e |-> 0]
NaN == [k |-> "nan", s |-> 1, m |-> 0, e |-> 0]
Inf(sg) == [k |-> "inf", s |-> sg, m |-> 0, e |-> 0]

IsNaN(a) == a.k = "nan"
IsInf(a) == a.k = "inf"
IsFinite(a) == a.k = "fin"
IsZero(a) == a.k = "fin" /\ a.m = 0

\* The float nearest to sg * (n + fraction) * 2^ex, where sticky says that a
\* non-zero fraction below n's last bit was dropped (n then holds at least
\* PrecBits + 2 bits).
Normalize(sg, n, ex, sticky) ==
    IF n = 0 THEN Zero
    ELSE LET b == BitLen(n)
             d == b - PrecBits
             q == n \div (2^d)
             r == n % (2^d)
             half == 2^(d - 1)
             up == r > half \/ (r = half /\ (sticky \/ q % 2 = 1))
             q1 == IF up THEN q + 1 ELSE q
             mm == IF b > PrecBits
                     THEN (IF q1 = 2^PrecBits THEN 2^(PrecBits - 1) ELSE q1)
                     ELSE n * (2^(PrecBits - b))
             ee == IF b > PrecBits
                     THEN (IF q1 = 2^PrecBits THEN ex + d + 1 ELSE ex + d)
                     ELSE ex - (PrecBits - b)
         IN  IF ee > MaxExp THEN Inf(sg)
             ELSE IF ee < -MinExpAbs THEN Zero
             ELSE [k |-> "fin", s |-> sg, m |-> mm, e |-> ee]

FNeg(a) == IF IsNaN(a) \/ IsZero(a) THEN a ELSE [a EXCEPT !.s = -a.s]

FAbs(a) == IF IsNaN(a) THEN a ELSE [a EXCEPT !.s = 1]

\* a * b.  The 2*PrecBits-bit product of the mantissas is formed in two
\* halves, hi * 2^(2h) + lo, so that no intermediate exceeds 31 bits.
FMul(a, b) ==
    IF IsNaN(a) \/ IsNaN(b) THEN NaN
    ELSE IF IsInf(a) \/ IsInf(b)
      THEN (IF IsZero(a) \/ IsZero(b) THEN NaN ELSE Inf(a.s * b.s))
    ELSE IF IsZero(a) \/ IsZero(b) THEN Zero
    ELSE LET h == (PrecBits + 1) \div 2
             H == 2^h
             a1 == a.m \div H
             a0 == a.m % H
             b1 == b.m \div H
             b0 == b.m % H
             mid == a1 * b0 + a0 * b1
             lo1 == (mid % H) * H + a0 * b0
             lo == lo1 % (H * H)
             hi == a1 * b1 + mid \div H + lo1 \div (H * H)
             g == 8
             n == hi * (2^g) + lo \div (2^(2 * h - g))
             st == lo % (2^(2 * h - g)) # 0
         IN  Normalize(a.s * b.s, n, a.e + b.e + 2 * h - g, st)

\* Long division: bits more quotient bits of r / d appended to q.
RECURSIVE DivStep(_, _, _, _)
DivStep(q, r, d, bits) ==
    IF bits = 0 THEN <<q, r>>
    ELSE LET c == IF bits < 30 - PrecBits THEN bits ELSE 30 - PrecBits
         IN  DivStep(q * (2^c) + (r * (2^c)) \div d, (r * (2^c)) % d, d, bits - c)

\* a / b as IEEE-754 defines it (x/0 = inf, 0/0 = nan): numpy.float64's
\* division.  Python's own float division raises on a zero divisor instead;
\* the steps that divide Python floats test IsZero first.
FDiv(a, b) ==
    IF IsNaN(a) \/ IsNaN(b) THEN NaN
    ELSE IF IsInf(a) THEN (IF IsInf(b) THEN NaN ELSE Inf(a.s * b.s))
    ELSE IF IsInf(b) THEN Zero
    ELSE IF IsZero(b) THEN (IF IsZero(a) THEN NaN ELSE Inf(a.s * b.s))
    ELSE IF IsZero(a) THEN Zero
    ELSE LET qr == DivStep(a.m \div b.m, a.m % b.m, b.m, PrecBits + 3)
         IN  Normalize(a.s * b.s, qr[1], a.e - b.e - (PrecBits + 3), qr[2] # 0)

\* a + b, with three guard bits (guard, round, sticky).
FAdd(a, b) ==
    IF IsNaN(a) \/ IsNaN(b) THEN NaN
    ELSE IF IsInf(a) THEN (IF IsInf(b) /\ b.s # a.s THEN NaN ELSE a)
    ELSE IF IsInf(b) THEN b
    ELSE IF IsZero(a) THEN b
    ELSE IF IsZero(b) THEN a
    ELSE LET swap == a.e < b.e \/ (a.e = b.e /\ a.m < b.m)
             x == IF swap THEN b ELSE a
             y == IF swap THEN a ELSE b
             d == x.e - y.e
             A == x.m * 8
             B0 == (y.m * 8) \div (2^d)
             B == IF d >= PrecBits + 3 THEN 1
                  ELSE IF (y.m * 8) % (2^d) # 0 THEN B0 + (1 - (B0 % 2))
                  ELSE B0
             N == IF x.s = y.s THEN A + B ELSE A - B
         IN  Normalize(x.s, N, x.e - 3, FALSE)

FSub(a, b) == FAdd(a, FNeg(b))

\* Comparisons; every comparison with a nan is false.
Rank(a) ==
    IF IsInf(a) THEN <<2 * a.s, 0, 0>>
    ELSE IF IsZero(a) THEN <<0, 0, 0>>
    ELSE <<a.s, a.s * a.e, a.s * a.m>>

LexLess(u, v) ==
    \/ u[1] < v[1]
    \/ u[1] = v[1] /\ u[2] < v[2]
    \/ u[1] = v[1] /\ u[2] = v[2] /\ u[3] < v[3]

FLt(a, b) == ~IsNaN(a) /\ ~IsNaN(b) /\ LexLess(Rank(a), Rank(b))
FEq(a, b) == ~IsNaN(a) /\ ~IsNaN(b) /\ Rank(a) = Rank(b)
FLe(a, b) == FLt(a, b) \/ FEq(a, b)
FGt(a, b) == FLt(b, a)
FGe(a, b) == FLe(b, a)

\* The float nearest to sg * (i + r / d), for 0 <= r < d < 2^20.
RECURSIVE LeadShift(_, _, _)
LeadShift(r, d, j) == IF r * (2^j) >= d THEN j ELSE LeadShift(r, d, j + 1)

Ratio(sg, i, r, d) ==
    IF i = 0 /\ r = 0 THEN Zero
    ELSE IF i > 0
      THEN LET bi == BitLen(i)
               t == PrecBits + 3 - bi
           IN  IF t <= 0 THEN Normalize(sg, i, 0, r # 0)
               ELSE LET qr == DivStep(i, r, d, t)
                    IN  Normalize(sg, qr[1], -t, qr[2] # 0)
    ELSE LET t == LeadShift(r, d, 0) + PrecBits + 2
             qr == DivStep(0, r, d, t)
         IN  Normalize(sg, qr[1], -t, qr[2] # 0)

\* A decimal literal n/d of the source, as the nearest float.
Lit(n, d) ==
    LET sg == IF n >= 0 THEN 1 ELSE -1
        an == IF n >= 0 THEN n ELSE -n
    IN  Ratio(sg, an \div d, an % d, d)

F(n) == Lit(n, 1)

One == F(1)

\* a * 2^j
Ldexp(a, j) ==
    IF ~IsFinite(a) \/ IsZero(a) THEN a ELSE Normalize(a.s, a.m, a.e + j, FALSE)


\* RNE(f * K / 2^sh): f * K / 2^sh rounded to the nearest integer, ties to
\* even, for 0 <= f < 2^PrecBits, K <= 10^4 and sh >= 1.
MulShiftRNE(f, K, sh) ==
    IF sh <= 10
      THEN LET n == f * K
               q == n \div (2^sh)
               r == n % (2^sh)
               half == 2^(sh - 1)
           IN  IF r > half \/ (r = half /\ q % 2 = 1) THEN q + 1 ELSE q
    ELSE IF sh - 10 > 30 THEN 0
    ELSE LET fh == f \div 1024
             fl == f % 1024
             t == fh * K + (fl * K) \div 1024
             rem1 == (fl * K) % 1024
             q == t \div (2^(sh - 10))
             rem2 == t % (2^(sh - 10))
             half == 2^(sh - 11)
         IN  IF rem2 > half \/ (rem2 = half /\ (rem1 > 0 \/ q % 2 = 1))
               THEN q + 1 ELSE q

\* Python's round(a, nd): the exact value of a rounded to nd decimals, ties to
\* even, and the float nearest to that decimal.  Infinities and nan pass
\* through, as does a float with no fractional bits.
Round(a, nd) ==
    IF ~IsFinite(a) \/ IsZero(a) \/ a.e >= 0 THEN a
    ELSE LET K == 10^nd
             sh == -a.e
         IN  IF sh >= 31 + PrecBits THEN Zero
             ELSE LET i == IF sh < 31 THEN a.m \div (2^sh) ELSE 0
                      f == IF sh < 31 THEN a.m % (2^sh) ELSE a.m
                      kf == MulShiftRNE(f, K, sh)
                  IN  IF kf = K THEN Ratio(a.s, i + 1, 0, K)
                      ELSE Ratio(a.s, i, kf, K)

\* floor(a) as an integer, for a finite a of small magnitude.
FloorInt(a) ==
    IF IsZero(a) THEN 0
    ELSE IF a.e >= 0 THEN a.s * a.m * (2^a.e)
    ELSE LET sh == -a.e
             v == IF sh > 30 THEN 0 ELSE a.m \div (2^sh)
             frac == IF sh > 30 THEN TRUE ELSE a.m % (2^sh) # 0
         IN  IF a.s < 0 THEN -v - (IF frac THEN 1 ELSE 0) ELSE v

\* Number of terms of the series behind exp and log.
ExpTerms == 14
LnTerms == 8

\* 1 + x/1 (1 + x/2 (1 + ... (1 + x/j acc))), the Taylor polynomial of exp.
RECURSIVE ExpSeries(_, _, _)
ExpSeries(x, j, acc) ==
    IF j = 0 \/ IsNaN(acc) THEN acc
    ELSE ExpSeries(x, j - 1, FAdd(One, FDiv(FMul(x, acc), F(j))))

\* 1 + u2/3 + u2^2/5 + ..., the series of atanh(u)/u in u2 = u^2.
RECURSIVE AtanhSeries(_, _, _)
AtanhSeries(u2, j, acc) ==
    IF j = 0 \/ IsNaN(acc) THEN acc
    ELSE AtanhSeries(u2, j - 1, FAdd(FDiv(One, F(2 * j - 1)), FMul(u2, acc)))

Atanh(u) ==
    FMul(u, AtanhSeries(FMul(u, u), LnTerms - 1, FDiv(One, F(2 * LnTerms - 1))))

Ln2 == FMul(F(2), Atanh(FDiv(One, F(3))))

\* log(x) for a finite x > 0: x = z * 2^j with 1/2 <= z < 1, and
\* log z = 2 atanh((z - 1)/(z + 1)).
Ln(x) ==
    LET j == x.e + PrecBits
        z == [k |-> "fin", s |-> 1, m |-> x.m, e |-> -PrecBits]
        u == FDiv(FSub(z, One), FAdd(z, One))
    IN  FAdd(FMul(F(j), Ln2), FMul(F(2), Atanh(u)))

\* numpy.exp(x): exp(x) = 2^j exp(x - j log 2), overflowing to inf.
NpExp(x) ==
    IF IsNaN(x) THEN NaN
    ELSE IF IsInf(x) THEN (IF x.s > 0 THEN Inf(1) ELSE Zero)
    ELSE IF IsZero(x) THEN One
    ELSE IF FLt(F(400), FAbs(x)) THEN (IF x.s > 0 THEN Inf(1) ELSE Zero)
    ELSE LET j == FloorInt(FAdd(FDiv(x, Ln2), Lit(1, 2)))
             r == FSub(x, FMul(F(j), Ln2))
         IN  Ldexp(ExpSeries(r, ExpTerms, One), j)

\* Python's x ** y for x > 0 and a float exponent y: exp(y log x).
PyPow(x, y) ==
    IF IsInf(x) THEN (IF y.s < 0 THEN Zero ELSE Inf(1))
    ELSE NpExp(FMul(y, Ln(x)))

\* Python's x ** n for a small integer n >= 1, by repeated multiplication.
RECURSIVE PowInt(_, _)
PowInt(x, n) == IF n = 1 THEN x ELSE FMul(PowInt(x, n - 1), x)


----------------------------------------------------------------------------
(* State                                                                    *)

VARIABLES
    pc,                 \* position of the call in progress
    params,             \* ProcessParameters passed to calculate
    error,              \* exception raised by the call, or NoError
    radius, length, density_kg_m3,
    shear_rate, apparent_viscosity, reynolds_number,
    pressure_drop, pressure_drop_kpa, pressure_profile,
    injection_time, flow_regime, warnings,
    results,            \* value returned by calculate
    agent_type, annual_consumption,
    current_agent,      \* row looked up by calculate_environmental_impact
    env_result          \* value returned by calculate_environmental_impact

locals == <<radius, length, density_kg_m3, shear_rate, apparent_viscosity,
            reynolds_number, pressure_drop, pressure_drop_kpa,
            pressure_profile, injection_time, flow_regime, warnings>>

envvars == <<agent_type, annual_consumption, current_agent, env_result>>

vars == <<pc, params, error, locals, results, envvars>>

\* A name not bound yet (a local before its assignment, a value before its
\* return): a number or a dictionary, a string, a list of strings, a list
\* of points.
Unset == [k |-> "unset"]
UnsetString == "unset"
UnsetWarnings == <<"unset">>
UnsetProfile == <<>>
NoError == [type |-> "none", msg |-> ""]

----------------------------------------------------------------------------
(* ProcessParameters                                                        *)

ProcessParameters(pl, pt, t, q, v, d) ==
    [pipe_length |-> pl, pipe_thickness |-> pt, temperature |-> t,
     flow_rate |-> q, viscosity |-> v, density |-> d]

\* Messages of ProcessParameters.validate, in the order of its checks (the
\* temperature message without its degree signs).
ValidationMessages ==
    << "Pipe length must be at least 50mm",
       "Pipe thickness must be positive",
       "Temperature must be between 5C and 40C",
       "Flow rate must be positive",
       "Viscosity must be positive",
       "Density must be positive" >>

\* Variant of validate: the flow rate checked first.
validate_FlowRateFirst(p) ==
    IF FLe(p.flow_rate, F(0)) THEN ValidationMessages[4]
    ELSE IF FLt(p.pipe_length, F(50)) THEN ValidationMessages[1]
    ELSE IF FLe(p.pipe_thickness, F(0)) THEN ValidationMessages[2]
    ELSE IF ~(FLe(F(5), p.temperature) /\ FLe(p.temperature, F(40)))
      THEN ValidationMessages[3]
    ELSE IF FLe(p.viscosity, F(0)) THEN ValidationMessages[5]
    ELSE IF FLe(p.density, F(0)) THEN ValidationMessages[6]
    ELSE ""

\* ProcessParameters.validate: the message of the ValidationError it raises,
\* or "" when it returns.
validate(p) ==
    IF FLt(p.pipe_length, F(50)) THEN ValidationMessages[1]
    ELSE IF FLe(p.pipe_thickness, F(0)) THEN ValidationMessages[2]
    ELSE IF ~(FLe(F(5), p.temperature) /\ FLe(p.temperature, F(40)))
      THEN ValidationMessages[3]
    ELSE IF FLe(p.flow_rate, F(0)) THEN ValidationMessages[4]
    ELSE IF FLe(p.viscosity, F(0)) THEN ValidationMessages[5]
    ELSE IF FLe(p.density, F(0)) THEN ValidationMessages[6]
    ELSE ""

----------------------------------------------------------------------------
(* PolyurethaneCalculator                                                   *)

activation_energy == F(50000)
gas_constant == Lit(8314, 1000)
power_law_index == Lit(85, 100)
\* numpy.pi
Pi == Lit(3141593, 1000000)

\* x ** n overflows (Python raises OverflowError where IEEE gives inf).
PowOverflows(x, n) == IsFinite(x) /\ IsInf(PowInt(x, n))

_convert_to_kelvin(temp_celsius) == FAdd(temp_celsius, Lit(27315, 100))

_calculate_shear_rate(flow_rate, r) ==
    FDiv(FMul(F(4), flow_rate), FMul(Pi, PowInt(r, 3)))

_calculate_temperature_factor(temperature) ==
    LET temp_k == _convert_to_kelvin(temperature)
        ref_temp_k == _convert_to_kelvin(F(25))
    IN  NpExp(FMul(FDiv(activation_energy, gas_constant),
                   FSub(FDiv(One, temp_k), FDiv(One, ref_temp_k))))

_calculate_apparent_viscosity(initial_viscosity, temperature, shear) ==
    LET base_viscosity == FMul(initial_viscosity, Lit(1, 1000))
        temp_factor == _calculate_temperature_factor(temperature)
        shear_factor == PyPow(shear, FSub(power_law_index, One))
    IN  FMul(FMul(base_viscosity, temp_factor), shear_factor)

_calculate_reynolds_number(flow_rate, r, viscosity, density) ==
    LET velocity == FDiv(flow_rate, FMul(Pi, PowInt(r, 2)))
    IN  FDiv(FMul(FMul(FMul(F(2), r), velocity), density), viscosity)

_calculate_pressure_drop(viscosity, flow_rate, len, r) ==
    LET n == power_law_index
    IN  FMul(FDiv(FMul(FMul(FMul(F(8), viscosity), len), flow_rate),
                  FMul(Pi, PowInt(r, 4))),
             FDiv(FAdd(FMul(F(3), n), One), FMul(F(4), n)))

\* One point of the profile, i = 0 .. num_points - 1.
\* Variant of ProfilePoint: the positions spaced by length / num_points.
ProfilePoint_OverNumPoints(total_pressure, num_points, len, i) ==
    LET distance == FDiv(FMul(F(i), len), F(num_points))
        relative_position == FDiv(distance, len)
        pressure == FMul(total_pressure, FSub(One, relative_position))
    IN  [distance |-> Round(distance, 1), pressure |-> Round(pressure, 2)]

ProfilePoint(total_pressure, num_points, len, i) ==
    LET distance == FDiv(FMul(F(i), len), F(num_points - 1))
        relative_position == FDiv(distance, len)
        pressure == FMul(total_pressure, FSub(One, relative_position))
    IN  [distance |-> Round(distance, 1), pressure |-> Round(pressure, 2)]

_generate_pressure_profile(total_pressure, num_points, len) ==
    [j \in 1..num_points |->
        ProfilePoint(total_pressure, num_points, len, j - 1)]

TurbulentWarning ==
    "Flow is turbulent (Re > 2300) - consider reducing flow rate"
ShearWarning == "High shear rate may affect material properties"
ViscosityWarning == "High viscosity may require increased pressure"

\* Variants of _generate_warnings: the viscosity rule tested before the
\* shear rule, and the turbulence rule firing from 2000.
_generate_warnings_ViscosityFirst(reynolds, shear, viscosity) ==
    LET w1 == IF FGt(reynolds, F(2300)) THEN <<TurbulentWarning>> ELSE <<>>
        w2 == IF FGt(viscosity, One) THEN Append(w1, ViscosityWarning) ELSE w1
        w3 == IF FGt(shear, F(1000)) THEN Append(w2, ShearWarning) ELSE w2
    IN  w3

_generate_warnings_From2000(reynolds, shear, viscosity) ==
    LET w1 == IF FGt(reynolds, F(2000)) THEN <<TurbulentWarning>> ELSE <<>>
        w2 == IF FGt(shear, F(1000)) THEN Append(w1, ShearWarning) ELSE w1
        w3 == IF FGt(viscosity, One) THEN Append(w2, ViscosityWarning) ELSE w2
    IN  w3

_generate_warnings(reynolds, shear, viscosity) ==
    LET w1 == IF FGt(reynolds, F(2300)) THEN <<TurbulentWarning>> ELSE <<>>
        w2 == IF FGt(shear, F(1000)) THEN Append(w1, ShearWarning) ELSE w1
        w3 == IF FGt(viscosity, One) THEN Append(w2, ViscosityWarning) ELSE w2
    IN  w3

\* Variants of the regime test: 2300 counted as laminar, and the test made
\* on the Reynolds number rounded to two decimals.
FlowRegime_Inclusive(reynolds) ==
    IF FLe(reynolds, F(2300)) THEN "laminar" ELSE "turbulent"

FlowRegime_OfRounded(reynolds) ==
    IF FLt(Round(reynolds, 2), F(2300)) THEN "laminar" ELSE "turbulent"

\* flow_regime = "laminar" if reynolds_number < 2300 else "turbulent"
FlowRegime(reynolds) ==
    IF FLt(reynolds, F(2300)) THEN "laminar" ELSE "turbulent"


----------------------------------------------------------------------------
(* Inputs                                                                   *)

\* Exponents of the powers of two that scale a pipe thickness out of the
\* range in which radius**3 and radius**4 stay finite and non-zero.
TinyShift == 40
SmallShift == 30
LargeShift == 40
HugeShift == 60

PipeThicknesses ==
    {F(0), F(1), F(20), Ldexp(F(20), -TinyShift), Ldexp(F(20), -SmallShift),
     Ldexp(F(20), LargeShift), Ldexp(F(20), HugeShift)}
FlowRates == {F(0), Lit(5, 10000), Lit(1, 1000)}
Viscosities == {F(0), F(350), F(3500)}
Densities ==
    {F(0), Lit(112, 100), Lit(4326924, 1000000), Lit(4326931, 1000000),
     F(100)}

\* The sample of the demonstration harness.
SampleParams ==
    ProcessParameters(F(100), F(20), F(25), Lit(1, 1000), F(350),
                      Lit(112, 100))

\* Every combination of a violated and a satisfied constraint.
ValidationGrid ==
    {ProcessParameters(pl, pt, t, q, v, d) :
        pl \in {F(49), F(100)}, pt \in {F(0), F(20)},
        t \in {F(4), F(25), F(41)}, q \in {F(0), Lit(1, 1000)},
        v \in {F(0), F(350)}, d \in {F(0), Lit(112, 100)}}

\* The boundary values of the constraints.
BoundaryGrid ==
    {[SampleParams EXCEPT !.pipe_length = pl, !.temperature = t] :
        pl \in {F(50), F(100)}, t \in {F(5), F(25), F(40)}}

\* Flow rates, viscosities, temperatures and densities on both sides of the
\* three warning thresholds.
WarningGrid ==
    {[SampleParams EXCEPT !.flow_rate = q, !.viscosity = v,
                          !.temperature = t, !.density = d] :
        q \in FlowRates \ {F(0)}, v \in Viscosities \ {F(0)},
        t \in {F(5), F(25)}, d \in {Lit(112, 100), F(100)}}

\* Densities that put the Reynolds number just below, at and above 2300.
DensityGrid ==
    {[SampleParams EXCEPT !.density = d] : d \in Densities \ {F(0)}}

\* Thin and wide pipes, down and up to the limits of the arithmetic.
ThicknessGrid ==
    {[SampleParams EXCEPT !.pipe_length = pl, !.pipe_thickness = pt] :
        pl \in {F(100), Lit(12345, 100)}, pt \in PipeThicknesses \ {F(0)}}

ParamSet ==
    ValidationGrid \cup BoundaryGrid \cup WarningGrid \cup DensityGrid
        \cup ThicknessGrid

AgentTypes == {"HFC", "HCFC", "Pentane", "HFO", "Ecomate", "CO2", "hfc"}
AnnualConsumptions == {F(0), F(1), F(5000), Lit(12345, 10), F(-100)}

Idle ==
    /\ pc = "idle"
    /\ params = Unset
    /\ error = NoError
    /\ radius = Unset /\ length = Unset /\ density_kg_m3 = Unset
    /\ shear_rate = Unset /\ apparent_viscosity = Unset
    /\ reynolds_number = Unset
    /\ pressure_drop = Unset /\ pressure_drop_kpa = Unset
    /\ pressure_profile = UnsetProfile
    /\ injection_time = Unset /\ flow_regime = UnsetString
    /\ warnings = UnsetWarnings
    /\ results = Unset
    /\ agent_type = UnsetString /\ annual_consumption = Unset
    /\ current_agent = Unset /\ env_result = Unset

Init == Idle

----------------------------------------------------------------------------
(* PolyurethaneCalculator.calculate, one action per statement               *)

Raise(type, msg) ==
    /\ pc' = "raised"
    /\ error' = [type |-> type, msg |-> msg]

\* calculator.calculate(p) is called.
CallCalculate ==
    /\ pc = "idle"
    /\ \E p \in ParamSet : params' = p
    /\ pc' = "validate"
    /\ UNCHANGED <<error, locals, results, envvars>>

\* params.validate()
Validate ==
    /\ pc = "validate"
    /\ IF validate(params) # ""
         THEN Raise("ValidationError", validate(params))
         ELSE pc' = "convert" /\ UNCHANGED error
    /\ UNCHANGED <<params, locals, results, envvars>>

\* radius, length, density_kg_m3
ConvertUnits ==
    /\ pc = "convert"
    /\ radius' = FDiv(params.pipe_thickness, F(2000))
    /\ length' = FDiv(params.pipe_length, F(1000))
    /\ density_kg_m3' = FMul(params.density, F(1000))
    /\ pc' = "shear_rate"
    /\ UNCHANGED <<params, error, shear_rate, apparent_viscosity,
                   reynolds_number, pressure_drop, pressure_drop_kpa,
                   pressure_profile, injection_time, flow_regime, warnings,
                   results, envvars>>

\* shear_rate = self._calculate_shear_rate(params.flow_rate, radius)
ShearRate ==
    /\ pc = "shear_rate"
    /\ IF PowOverflows(radius, 3)
         THEN Raise("OverflowError", "") /\ UNCHANGED shear_rate
       ELSE IF IsZero(FMul(Pi, PowInt(radius, 3)))
         THEN Raise("ZeroDivisionError", "") /\ UNCHANGED shear_rate
       ELSE /\ shear_rate' = _calculate_shear_rate(params.flow_rate, radius)
            /\ pc' = "apparent_viscosity"
            /\ UNCHANGED error
    /\ UNCHANGED <<params, radius, length, density_kg_m3, apparent_viscosity,
                   reynolds_number, pressure_drop, pressure_drop_kpa,
                   pressure_profile, injection_time, flow_regime, warnings,
                   results, envvars>>

\* apparent_viscosity = self._calculate_apparent_viscosity(...)
ApparentViscosity ==
    /\ pc = "apparent_viscosity"
    /\ IF IsZero(shear_rate)
         THEN Raise("ZeroDivisionError", "") /\ UNCHANGED apparent_viscosity
       ELSE /\ apparent_viscosity' =
                  _calculate_apparent_viscosity(params.viscosity,
                                                params.temperature, shear_rate)
            /\ pc' = "reynolds_number"
            /\ UNCHANGED error
    /\ UNCHANGED <<params, radius, length, density_kg_m3, shear_rate,
                   reynolds_number, pressure_drop, pressure_drop_kpa,
                   pressure_profile, injection_time, flow_regime, warnings,
                   results, envvars>>

\* reynolds_number = self._calculate_reynolds_number(...)
ReynoldsNumber ==
    /\ pc = "reynolds_number"
    /\ IF PowOverflows(radius, 2)
         THEN Raise("OverflowError", "") /\ UNCHANGED reynolds_number
       ELSE IF IsZero(FMul(Pi, PowInt(radius, 2)))
         THEN Raise("ZeroDivisionError", "") /\ UNCHANGED reynolds_number
       ELSE /\ reynolds_number' =
                  _calculate_reynolds_number(params.flow_rate, radius,
                                             apparent_viscosity, density_kg_m3)
            /\ pc' = "pressure_drop"
            /\ UNCHANGED error
    /\ UNCHANGED <<params, radius, length, density_kg_m3, shear_rate,
                   apparent_viscosity, pressure_drop, pressure_drop_kpa,
                   pressure_profile, injection_time, flow_regime, warnings,
                   results, envvars>>

\* pressure_drop = self._calculate_pressure_drop(...)
PressureDrop ==
    /\ pc = "pressure_drop"
    /\ IF PowOverflows(radius, 4)
         THEN Raise("OverflowError", "") /\ UNCHANGED pressure_drop
       ELSE /\ pressure_drop' =
                  _calculate_pressure_drop(apparent_viscosity, params.flow_rate,
                                           length, radius)
            /\ pc' = "pressure_drop_kpa"
            /\ UNCHANGED error
    /\ UNCHANGED <<params, radius, length, density_kg_m3, shear_rate,
                   apparent_viscosity, reynolds_number, pressure_drop_kpa,
                   pressure_profile, injection_time, flow_regime, warnings,
                   results, envvars>>

\* pressure_drop_kpa = pressure_drop / 1000
PressureDropKpa ==
    /\ pc = "pressure_drop_kpa"
    /\ pressure_drop_kpa' = FDiv(pressure_drop, F(1000))
    /\ pc' = "pressure_profile"
    /\ UNCHANGED <<params, error, radius, length, density_kg_m3, shear_rate,
                   apparent_viscosity, reynolds_number, pressure_drop,
                   pressure_profile, injection_time, flow_regime, warnings,
                   results, envvars>>

\* pressure_profile = self._generate_pressure_profile(pressure_drop_kpa, 20,
\*                                                    params.pipe_length)
PressureProfile ==
    /\ pc = "pressure_profile"
    /\ pressure_profile' =
           _generate_pressure_profile(pressure_drop_kpa, 20, params.pipe_length)
    /\ pc' = "injection_time"
    /\ UNCHANGED <<params, error, radius, length, density_kg_m3, shear_rate,
                   apparent_viscosity, reynolds_number, pressure_drop,
                   pressure_drop_kpa, injection_time, flow_regime, warnings,
                   results, envvars>>

\* pipe_volume = np.pi * radius**2 * length; injection_time = pipe_volume /
\* params.flow_rate
InjectionTime ==
    /\ pc = "injection_time"
    /\ IF PowOverflows(radius, 2)
         THEN Raise("OverflowError", "") /\ UNCHANGED injection_time
       ELSE IF IsZero(params.flow_rate)
         THEN Raise("ZeroDivisionError", "") /\ UNCHANGED injection_time
       ELSE /\ injection_time' =
                  FDiv(FMul(FMul(Pi, PowInt(radius, 2)), length),
                       params.flow_rate)
            /\ pc' = "flow_regime"
            /\ UNCHANGED error
    /\ UNCHANGED <<params, radius, length, density_kg_m3, shear_rate,
                   apparent_viscosity, reynolds_number, pressure_drop,
                   pressure_drop_kpa, pressure_profile, flow_regime, warnings,
                   results, envvars>>

\* flow_regime = "laminar" if reynolds_number < 2300 else "turbulent"
DetermineFlowRegime ==
    /\ pc = "flow_regime"
    /\ flow_regime' = FlowRegime(reynolds_number)
    /\ pc' = "warnings"
    /\ UNCHANGED <<params, error, radius, length, density_kg_m3, shear_rate,
                   apparent_viscosity, reynolds_number, pressure_drop,
                   pressure_drop_kpa, pressure_profile, injection_time,
                   warnings, results, envvars>>

\* warnings = self._generate_warnings(reynolds_number, shear_rate,
\*                                    apparent_viscosity)
GenerateWarnings ==
    /\ pc = "warnings"
    /\ warnings' = _generate_warnings(reynolds_number, shear_rate,
                                      apparent_viscosity)
    /\ pc' = "results"
    /\ UNCHANGED <<params, error, radius, length, density_kg_m3, shear_rate,
                   apparent_viscosity, reynolds_number, pressure_drop,
                   pressure_drop_kpa, pressure_profile, injection_time,
                   flow_regime, results, envvars>>

\* The dictionary calculate returns.
PrepareResults ==
    [required_pressure |-> Round(pressure_drop_kpa, 2),
     shear_rate |-> Round(shear_rate, 2),
     apparent_viscosity |-> Round(apparent_viscosity, 4),
     reynolds_number |-> Round(reynolds_number, 2),
     optimal_injection_time |-> Round(injection_time, 2),
     pressure_profile |-> pressure_profile,
     flow_regime |-> flow_regime,
     warnings |-> warnings]

\* results = {...}; return results
ReturnResults ==
    /\ pc = "results"
    /\ results' = PrepareResults
    /\ pc' = "done"
    /\ UNCHANGED <<params, error, locals, envvars>>


----------------------------------------------------------------------------
(* calculate_environmental_impact                                           *)

Agent(gwp, odp, lambda, cost) ==
    [gwp |-> gwp, odp |-> odp, lambda |-> lambda, cost |-> cost]

blowing_agent_data ==
    [a \in {"HFC", "HCFC", "Pentane", "HFO", "Ecomate"} |->
        CASE a = "HFC" -> Agent(F(1430), F(0), Lit(22, 1000), Lit(450, 100))
          [] a = "HCFC" -> Agent(F(725), Lit(7, 100), Lit(23, 1000), Lit(420, 100))
          [] a = "Pentane" -> Agent(F(5), F(0), Lit(24, 1000), Lit(380, 100))
          [] a = "HFO" -> Agent(F(1), F(0), Lit(22, 1000), Lit(520, 100))
          [] a = "Ecomate" -> Agent(F(0), F(0), Lit(19, 1000), Lit(395, 100))]

\* calculate_environmental_impact(a, c) is called.
CallEnvironmentalImpact ==
    /\ pc = "idle"
    /\ \E a \in AgentTypes : agent_type' = a
    /\ \E c \in AnnualConsumptions : annual_consumption' = c
    /\ pc' = "env_lookup"
    /\ UNCHANGED <<params, error, locals, results, current_agent, env_result>>

\* blowing_agent_data[agent_type]: the row, or the KeyError of a missing key.
KeyError == [exception |-> "KeyError"]

\* Variant of the lookup: a missing key answered with the HFC row.
Lookup_DefaultHFC(table, key) ==
    IF key \in DOMAIN table THEN table[key] ELSE table["HFC"]

Lookup(table, key) ==
    IF key \in DOMAIN table THEN table[key] ELSE KeyError

\* current_agent = blowing_agent_data[agent_type]
EnvLookup ==
    /\ pc = "env_lookup"
    /\ IF Lookup(blowing_agent_data, agent_type) = KeyError
         THEN Raise("KeyError", agent_type) /\ UNCHANGED current_agent
         ELSE /\ current_agent' = Lookup(blowing_agent_data, agent_type)
              /\ pc' = "env_compute"
              /\ UNCHANGED error
    /\ UNCHANGED <<params, locals, results, agent_type, annual_consumption,
                   env_result>>

\* Variant of the metrics: the thermal improvement taken relative to
\* Ecomate's conductivity.
ImpactMetrics_RelativeToEcomate(agent, ecomate, consumption) ==
    LET co2_reduction == FDiv(FMul(agent.gwp, consumption), F(1000))
        thermal_improvement ==
            FMul(FDiv(FSub(agent.lambda, ecomate.lambda), ecomate.lambda),
                 F(100))
        cost_savings == FMul(FSub(agent.cost, ecomate.cost), consumption)
    IN  [co2_reduction |-> Round(co2_reduction, 2),
         thermal_improvement |-> Round(thermal_improvement, 2),
         cost_savings |-> Round(cost_savings, 2),
         odp_reduction |-> FMul(agent.odp, consumption)]

\* The dictionary calculate_environmental_impact returns.
ImpactMetrics(agent, ecomate, consumption) ==
    LET co2_reduction == FDiv(FMul(agent.gwp, consumption), F(1000))
        thermal_improvement ==
            FMul(FDiv(FSub(agent.lambda, ecomate.lambda), agent.lambda), F(100))
        cost_savings == FMul(FSub(agent.cost, ecomate.cost), consumption)
    IN  [co2_reduction |-> Round(co2_reduction, 2),
         thermal_improvement |-> Round(thermal_improvement, 2),
         cost_savings |-> Round(cost_savings, 2),
         odp_reduction |-> FMul(agent.odp, consumption)]

\* ecomate = blowing_agent_data["Ecomate"]; the metrics; return {...}
EnvCompute ==
    /\ pc = "env_compute"
    /\ env_result' = ImpactMetrics(current_agent,
                                   Lookup(blowing_agent_data, "Ecomate"),
                                   annual_consumption)
    /\ pc' = "env_done"
    /\ UNCHANGED <<params, error, locals, results, agent_type,
                   annual_consumption, current_agent>>

----------------------------------------------------------------------------
(* The caller: calls follow one another, each on fresh locals.              *)

Terminal == pc \in {"done", "raised", "env_done"}

Return ==
    /\ Terminal
    /\ pc' = "idle"
    /\ params' = Unset
    /\ error' = NoError
    /\ radius' = Unset /\ length' = Unset /\ density_kg_m3' = Unset
    /\ shear_rate' = Unset /\ apparent_viscosity' = Unset
    /\ reynolds_number' = Unset
    /\ pressure_drop' = Unset /\ pressure_drop_kpa' = Unset
    /\ pressure_profile' = UnsetProfile
    /\ injection_time' = Unset /\ flow_regime' = UnsetString
    /\ warnings' = UnsetWarnings
    /\ results' = Unset
    /\ agent_type' = UnsetString /\ annual_consumption' = Unset
    /\ current_agent' = Unset /\ env_result' = Unset

Next ==
    \/ CallCalculate
    \/ Validate
    \/ ConvertUnits
    \/ ShearRate
    \/ ApparentViscosity
    \/ ReynoldsNumber
    \/ PressureDrop
    \/ PressureDropKpa
    \/ PressureProfile
    \/ InjectionTime
    \/ DetermineFlowRegime
    \/ GenerateWarnings
    \/ ReturnResults
    \/ CallEnvironmentalImpact
    \/ EnvLookup
    \/ EnvCompute
    \/ Return

Spec == Init /\ [][Next]_vars


----------------------------------------------------------------------------
(* Properties                                                               *)

Range(seq) == {seq[i] : i \in 1..Len(seq)}

\* A call of calculate has ended, by a return or by an exception.
CalcEnded == pc \in {"done", "raised"} /\ params # Unset

\* The constraints of ProcessParameters a parameter object violates, as
\* positions in the order pipe_length, pipe_thickness, temperature,
\* flow_rate, viscosity, density.
ViolatedConstraints(p) ==
    {i \in 1..6 :
        \/ i = 1 /\ FLt(p.pipe_length, F(50))
        \/ i = 2 /\ FLe(p.pipe_thickness, Zero)
        \/ i = 3 /\ (FLt(p.temperature, F(5)) \/ FGt(p.temperature, F(40)))
        \/ i = 4 /\ FLe(p.flow_rate, Zero)
        \/ i = 5 /\ FLe(p.viscosity, Zero)
        \/ i = 6 /\ FLe(p.density, Zero)}

NoLocalAssigned ==
    /\ radius = Unset /\ length = Unset /\ density_kg_m3 = Unset
    /\ shear_rate = Unset /\ apparent_viscosity = Unset
    /\ reynolds_number = Unset
    /\ pressure_drop = Unset /\ pressure_drop_kpa = Unset
    /\ pressure_profile = UnsetProfile
    /\ injection_time = Unset /\ flow_regime = UnsetString
    /\ warnings = UnsetWarnings

ResultFields ==
    {"required_pressure", "shear_rate", "apparent_viscosity",
     "reynolds_number", "optimal_injection_time", "pressure_profile",
     "flow_regime", "warnings"}

ValidationRaised == pc = "raised" /\ error.type = "ValidationError"

\* C1 as claimed: calculate raises ValidationError exactly when a constraint
\* is violated, nothing is computed and nothing returned when it does, and
\* whenever every constraint holds calculate returns a result with all eight
\* fields.
C1_AsClaimed ==
    CalcEnded =>
        /\ ValidationRaised <=> ViolatedConstraints(params) # {}
        /\ ValidationRaised => NoLocalAssigned /\ results = Unset
        /\ ViolatedConstraints(params) = {} =>
              pc = "done" /\ DOMAIN results = ResultFields

\* The part of C1 that holds: ValidationError is raised exactly when a
\* constraint is violated and before any local is assigned, and with every
\* constraint satisfied calculate either returns a result with all eight
\* fields or fails, without a result, on the OverflowError or the
\* ZeroDivisionError of its arithmetic.
C1_ValidationGate ==
    CalcEnded =>
        /\ ValidationRaised <=> ViolatedConstraints(params) # {}
        /\ ValidationRaised => NoLocalAssigned /\ results = Unset
        /\ ViolatedConstraints(params) = {} =>
              \/ pc = "done" /\ error = NoError
                    /\ DOMAIN results = ResultFields
              \/ pc = "raised" /\ results = Unset
                    /\ error.type \in {"OverflowError", "ZeroDivisionError"}

\* Every constraint satisfied, and calculate ended by an OverflowError.
C1_ArithmeticError ==
    /\ pc = "raised"
    /\ params # Unset /\ ViolatedConstraints(params) = {}
    /\ error.type = "OverflowError"
    /\ results = Unset

Min(S) == CHOOSE x \in S : \A y \in S : x <= y

\* C2: a ValidationError carries the message of the first violated
\* constraint in the order pipe_length, pipe_thickness, temperature,
\* flow_rate, viscosity, density, and the six messages are pairwise distinct.
C2_FirstViolation ==
    /\ Cardinality(Range(ValidationMessages)) = 6
    /\ ValidationRaised =>
          error.msg = ValidationMessages[Min(ViolatedConstraints(params))]

\* Several constraints violated at once, the first of them not the first
\* check.
C2_Witness ==
    /\ ValidationRaised
    /\ ViolatedConstraints(params) = {2, 4, 6}
    /\ error.msg = ValidationMessages[2]

Regimes == {"laminar", "turbulent"}

\* C3 as claimed: flow_regime is "turbulent" exactly when the
\* reynolds_number field of the same result is >= 2300.
C3_AsClaimed ==
    pc = "done" =>
        /\ results.flow_regime \in Regimes
        /\ results.flow_regime = "turbulent"
              <=> FGe(results.reynolds_number, F(2300))

\* C3 as amended: flow_regime is "laminar" exactly when the unrounded
\* Reynolds number is < 2300 and "turbulent" otherwise; a result whose
\* rounded reynolds_number field is < 2300 is laminar, and a turbulent
\* result carries a field >= 2300 (or a nan).
C3_RegimeOfUnrounded ==
    pc = "done" =>
        /\ results.flow_regime \in Regimes
        /\ results.flow_regime = "laminar" <=> FLt(reynolds_number, F(2300))
        /\ FLt(results.reynolds_number, F(2300))
              => results.flow_regime = "laminar"
        /\ results.flow_regime = "turbulent"
              => \/ FGe(results.reynolds_number, F(2300))
                 \/ IsNaN(results.reynolds_number)

\* A laminar result whose reynolds_number field reads 2300.0.
C3_Witness ==
    /\ pc = "done"
    /\ results.flow_regime = "laminar"
    /\ FEq(results.reynolds_number, F(2300))

Profile == results.pressure_profile

DistanceTolerance(len) == FAdd(Lit(1, 20), Ldexp(FAbs(len), 2 - PrecBits))

C5_AsClaimed ==
    (pc = "done" /\ IsFinite(pressure_drop_kpa)) =>
        /\ FEq(Profile[1].pressure, results.required_pressure)
        /\ FEq(Profile[20].pressure, Zero)

\* A finite pressure drop, and a last profile point whose pressure is not
\* 0.0.
C5_LastPointNotZero ==
    /\ pc = "done" /\ IsFinite(pressure_drop_kpa)
    /\ FEq(Profile[1].pressure, results.required_pressure)
    /\ ~FEq(Profile[20].pressure, Zero)

AllWarnings == <<TurbulentWarning, ShearWarning, ViscosityWarning>>

\* Position of a warning in the fixed order.
WarningRank(w) == CHOOSE i \in 1..3 : AllWarnings[i] = w

\* C6: the warnings of a result are a subsequence, in order and without
\* repetition, of the turbulence, shear and viscosity messages; each is
\* present exactly when its rule holds of the unrounded values: Reynolds
\* number > 2300, shear rate > 1000, apparent viscosity > 1.0.
C6_Warnings ==
    pc = "done" =>
        /\ Range(results.warnings) \subseteq Range(AllWarnings)
        /\ \A i, j \in 1..Len(results.warnings) :
              i < j => WarningRank(results.warnings[i])
                          < WarningRank(results.warnings[j])
        /\ TurbulentWarning \in Range(results.warnings)
              <=> FGt(reynolds_number, F(2300))
        /\ ShearWarning \in Range(results.warnings)
              <=> FGt(shear_rate, F(1000))
        /\ ViscosityWarning \in Range(results.warnings)
              <=> FGt(apparent_viscosity, One)

\* All three warnings at once, in the fixed order.
C6_Witness == pc = "done" /\ results.warnings = AllWarnings

\* A result whose warnings are exactly those at the positions in S.
WarningsAre(S) ==
    pc = "done" /\ {WarningRank(w) : w \in Range(results.warnings)} = S

EcomateRow == blowing_agent_data["Ecomate"]

\* C7: for a known agent the result is co2_reduction = round(gwp *
\* consumption / 1000, 2), thermal_improvement = round((lambda - Ecomate's
\* lambda) / lambda * 100, 2), cost_savings = round((cost - Ecomate's cost) *
\* consumption, 2) and odp_reduction = odp * consumption unrounded, always
\* against the Ecomate row; HFC at 5000 gives 7150.0 and 2750.0, and
\* Ecomate gives zero for every field.
C7_ImpactFormulas ==
    pc = "env_done" =>
        LET row == blowing_agent_data[agent_type]
        IN  /\ DOMAIN env_result = {"co2_reduction", "thermal_improvement",
                                    "cost_savings", "odp_reduction"}
            /\ env_result.co2_reduction =
                  Round(FDiv(FMul(row.gwp, annual_consumption), F(1000)), 2)
            /\ env_result.thermal_improvement =
                  Round(FMul(FDiv(FSub(row.lambda, EcomateRow.lambda),
                                  row.lambda), F(100)), 2)
            /\ env_result.cost_savings =
                  Round(FMul(FSub(row.cost, EcomateRow.cost),
                             annual_consumption), 2)
            /\ env_result.odp_reduction = FMul(row.odp, annual_consumption)
            /\ (agent_type = "HFC" /\ annual_consumption = F(5000)) =>
                  /\ env_result.co2_reduction = F(7150)
                  /\ env_result.cost_savings = F(2750)
            /\ agent_type = "Ecomate" =>
                  \A f \in DOMAIN env_result : IsZero(env_result[f])

\* The HFC baseline at 5000 kg a year.
C7_Witness ==
    /\ pc = "env_done"
    /\ agent_type = "HFC" /\ annual_consumption = F(5000)
    /\ env_result.co2_reduction = F(7150)
    /\ env_result.thermal_improvement = Lit(1364, 100)

KnownAgents == {"HFC", "HCFC", "Pentane", "HFO", "Ecomate"}

EnvStarted == agent_type # UnsetString
EnvEnded == EnvStarted /\ pc # "env_lookup"

\* C8: a call with an agent_type that is not one of the five table keys
\* ends in the KeyError of the table lookup, with no row read and no result,
\* never in a result computed from the HFC row or any other; a call with a
\* table key never raises. This holds of every call, so of repeated ones.
C8_UnknownAgent ==
    /\ (EnvEnded /\ agent_type \notin KnownAgents) =>
          /\ pc = "raised" /\ error.type = "KeyError"
          /\ current_agent = Unset /\ env_result = Unset
    /\ (EnvEnded /\ agent_type \in KnownAgents) =>
          /\ pc \in {"env_compute", "env_done"}
          /\ error = NoError
          /\ current_agent = blowing_agent_data[agent_type]

\* The table has no key CO2.
C8_Witness ==
    /\ pc = "raised" /\ agent_type = "CO2"
    /\ error.type = "KeyError" /\ env_result = Unset

C10_WarningImpliesTurbulent ==
    pc = "done" =>
        /\ TurbulentWarning \in Range(results.warnings)
              => results.flow_regime = "turbulent"
        /\ (results.flow_regime = "turbulent"
              /\ TurbulentWarning \notin Range(results.warnings))
              => (~FLt(reynolds_number, F(2300))
                    /\ ~FGt(reynolds_number, F(2300)))

\* The turbulence warning in a turbulent result.
C10_Witness ==
    /\ pc = "done"
    /\ TurbulentWarning \in Range(results.warnings)
    /\ results.flow_regime = "turbulent"

\* A turbulent result without the warning, at a Reynolds number of 2300.
C10_ConverseFails ==
    /\ pc = "done"
    /\ results.flow_regime = "turbulent"
    /\ TurbulentWarning \notin Range(results.warnings)
    /\ FEq(reynolds_number, F(2300))

============================================================================
